---- MODULE Spec2Model ----
(***************************************************************************)
(* The todo application: the Express API service (backend/server.js), the  *)
(* todos table and its id sequence (backend/setup_db.js) and the React     *)
(* client (frontend App component).                                        *)
(*                                                                         *)
(* A handler runs synchronously up to its first await, so receiving a      *)
(* request, validating it and calling pool.connect() is one step; the      *)
(* statement with the handler's continuation (response, finally-release)   *)
(* is a later step.  Steps of different requests interleave.  What a step  *)
(* sent is held in out for the one step that follows it.                   *)
(***************************************************************************)
EXTENDS Integers, Sequences, FiniteSets, Bags

\* ---------------------------------------------------------------- bounds
\* requests the service handles at once
MaxReq == 2
\* values the id sequence hands out
MaxSeq == 2
\* user actions of the client that send a request
MaxClicks == 3
\* runs of the schema initializer
MaxRuns == 2

\* ------------------------------------------------------ program constants
\* text VARCHAR(255)
VarcharLen == 255
\* id SERIAL: a 32-bit integer column fed by a sequence
Int4Max == 2147483647

\* ------------------------------------------------------------- the state
VARIABLES
  table,        \* the rows of todos
  seq,          \* last value handed out by the id sequence
  checkedOut,   \* pool clients currently checked out
  reqs,         \* the requests being handled: a bag of [pc, request]
  out,          \* what the handler that ended in the last step sent, if any
  assigned,     \* history: the ids given to inserted rows, in order
  deleted,      \* history: the ids of the rows ever deleted
  todos,        \* client: the list state
  error,        \* client: the error state ("" is null)
  newTodoText,  \* client: the input state
  togLog,       \* history: per id, the last two client toggles applied
  clicks,       \* history: the user actions that sent a request so far
  lastFetch,    \* history: how the list fetch the client applied last ended
  setup         \* the schema initializer's process and the database cluster

store == <<table, seq, checkedOut>>
hist == <<assigned, deleted>>
client == <<todos, error, newTodoText>>
vars == <<table, seq, checkedOut, reqs, out, assigned, deleted,
          todos, error, newTodoText, togLog, clicks, lastFetch, setup>>

\* ------------------------------------------------------------- strings
\* A body text is a run-length encoded string: a sequence of runs
\* [c |-> character, n |-> repetitions >= 1], adjacent runs differing in c.
Run(c, n) == [c |-> c, n |-> n]

Rep(c, n) == IF n <= 0 THEN <<>> ELSE <<Run(c, n)>>

RECURSIVE StrLen(_)
StrLen(s) == IF s = <<>> THEN 0 ELSE s[1].n + StrLen(Tail(s))

IsSpace(c) == c = " "

RECURSIVE TrimStart(_)
TrimStart(s) ==
  IF s # <<>> /\ IsSpace(s[1].c) THEN TrimStart(Tail(s)) ELSE s

RECURSIVE TrimEnd(_)
TrimEnd(s) ==
  IF s # <<>> /\ IsSpace(s[Len(s)].c)
  THEN TrimEnd(SubSeq(s, 1, Len(s) - 1))
  ELSE s

\* String.prototype.trim
Trim(s) == TrimEnd(TrimStart(s))

RECURSIVE Take(_, _)
Take(s, k) ==
  IF s = <<>> \/ k <= 0 THEN <<>>
  ELSE IF s[1].n <= k THEN <<s[1]>> \o Take(Tail(s), k - s[1].n)
  ELSE <<Run(s[1].c, k)>>

RECURSIVE Drop(_, _)
Drop(s, k) ==
  IF s = <<>> \/ k <= 0 THEN s
  ELSE IF s[1].n <= k THEN Drop(Tail(s), k - s[1].n)
  ELSE <<Run(s[1].c, s[1].n - k)>> \o Tail(s)

AllSpaces(s) == \A i \in 1..Len(s) : s[i].c = " "

\* Assignment of a string to the column text VARCHAR(255): a longer string is
\* an error (SQLSTATE 22001) unless the excess characters are all spaces, in
\* which case it is cut to the column length.
VarcharAssign(s) ==
  IF StrLen(s) <= VarcharLen THEN [ok |-> TRUE, v |-> s]
  ELSE IF AllSpaces(Drop(s, VarcharLen))
  THEN [ok |-> TRUE, v |-> Take(s, VarcharLen)]
  ELSE [ok |-> FALSE, v |-> <<>>]

\* ------------------------------------------------------- JSON/JS values
JV(t, b, n, s) == [t |-> t, b |-> b, n |-> n, s |-> s]
Undefined == JV("undefined", FALSE, 0, <<>>)
JNull == JV("null", FALSE, 0, <<>>)
JBool(b) == JV("boolean", b, 0, <<>>)
JNum(n) == JV("number", FALSE, n, <<>>)
JStr(s) == JV("string", FALSE, 0, s)

\* ToBoolean
Truthy(v) ==
  CASE v.t = "boolean" -> v.b
    [] v.t = "number" -> v.n # 0
    [] v.t = "string" -> v.s # <<>>
    [] OTHER -> FALSE

\* faulty variant: a toggle that always sends true
NotAlwaysTrue(v) == JBool(TRUE)

\* the ! operator
Not(v) == JBool(~Truthy(v))

\* ------------------------------------------------------ path identifiers
\* A path identifier is a non-empty sequence of one-character strings.
Digits == <<"0", "1", "2", "3", "4", "5", "6", "7", "8", "9">>
IsDigit(c) == \E i \in 1..10 : Digits[i] = c
DigitVal(c) == (CHOOSE i \in 1..10 : Digits[i] = c) - 1

NaN == [k |-> "nan", v |-> 0]
Num(v) == [k |-> "int", v |-> v]
\* a number whose magnitude exceeds the 32-bit integer range
Big == [k |-> "big", v |-> 0]

RECURSIVE SkipWs(_)
SkipWs(s) == IF s # <<>> /\ IsSpace(s[1]) THEN SkipWs(Tail(s)) ELSE s

RECURSIVE ParseDigits(_, _)
ParseDigits(s, acc) ==
  IF s = <<>> \/ ~IsDigit(s[1]) THEN acc
  ELSE LET d == DigitVal(s[1]) IN
       IF acc.k = "big" \/ (acc.k = "int" /\ acc.v > (Int4Max - d) \div 10)
       THEN ParseDigits(Tail(s), Big)
       ELSE ParseDigits(Tail(s), Num((IF acc.k = "int" THEN acc.v ELSE 0) * 10 + d))

\* parseInt(id, 10): leading white space is skipped, a sign is read, then the
\* longest prefix of decimal digits; NaN when there is no digit.
ParseInt(s) ==
  LET t == SkipWs(s)
      neg == t # <<>> /\ t[1] = "-"
      u == IF t # <<>> /\ t[1] \in {"+", "-"} THEN Tail(t) ELSE t
      r == ParseDigits(u, NaN)
  IN IF r.k = "int" /\ neg THEN Num(0 - r.v) ELSE r

IsNaN(r) == r.k = "nan"

RECURSIVE IdToString(_)
\* `${id}` for an id >= 0
IdToString(n) ==
  IF n < 10 THEN <<Digits[n + 1]>>
  ELSE IdToString(n \div 10) \o <<Digits[(n % 10) + 1]>>

\* ------------------------------------------------------------ the store
Row(id, text, completed) == [id |-> id, text |-> text, completed |-> completed]

RECURSIVE SortById(_)
SortById(S) ==
  IF S = {} THEN <<>>
  ELSE LET m == CHOOSE r \in S : \A q \in S : r.id <= q.id
       IN <<m>> \o SortById(S \ {m})

RECURSIVE SortByIdDesc(_)
SortByIdDesc(S) ==
  IF S = {} THEN <<>>
  ELSE LET m == CHOOSE r \in S : \A q \in S : r.id >= q.id
       IN <<m>> \o SortByIdDesc(S \ {m})

\* faulty variant: ORDER BY id DESC
SelectAllDesc(tbl) == SortByIdDesc(tbl)

\* SELECT * FROM todos ORDER BY id ASC
SelectAll(tbl) == SortById(tbl)

\* faulty variant: the id taken as MAX(id) + 1 over the rows present
NextvalReuse(s) ==
  IF table = {} THEN 1
  ELSE (CHOOSE m \in {x.id : x \in table} : \A x \in table : x.id <= m) + 1

\* nextval of the sequence behind id SERIAL
Nextval(s) == s + 1

\* faulty variant: the text trimmed before it is stored
InsertParamsTrimmed(text) == Trim(text)

\* the parameter array of the INSERT
InsertParams(text) == text

\* INSERT INTO todos (text) VALUES ($1) RETURNING *
\* The id default is evaluated before the text is assigned, so a rejected
\* text still consumes a sequence value.
InsertStmt(tbl, s, text) ==
  LET id == Nextval(s)
      a == VarcharAssign(text)
      row == Row(id, a.v, JBool(FALSE))
  IN IF ~a.ok THEN [err |-> "22001", rows |-> <<>>, table |-> tbl, seq |-> id]
     ELSE IF \E q \in tbl : q.id = id
     THEN [err |-> "23505", rows |-> <<>>, table |-> tbl, seq |-> id]
     ELSE [err |-> "", rows |-> <<row>>, table |-> tbl \cup {row}, seq |-> id]

\* A query parameter bound to the BOOLEAN column: a boolean as itself,
\* undefined and null as NULL, the numbers 0 and 1 as false and true.
ToDbBoolean(v) ==
  CASE v.t = "boolean" -> [ok |-> TRUE, v |-> v]
    [] v.t \in {"undefined", "null"} -> [ok |-> TRUE, v |-> JNull]
    [] v.t = "number" /\ v.n \in {0, 1} -> [ok |-> TRUE, v |-> JBool(v.n = 1)]
    [] OTHER -> [ok |-> FALSE, v |-> JNull]

\* faulty variant: the UPDATE without its WHERE clause
UpdateStmtNoWhere(tbl, completed, todoId) ==
  LET new == {[q EXCEPT !.completed = ToDbBoolean(completed).v] : q \in tbl}
  IN [err |-> "", rows |-> SortById({q \in new : todoId.k = "int" /\ q.id = todoId.v}),
      table |-> new]

\* UPDATE todos SET completed = $1 WHERE id = $2 RETURNING *
UpdateStmt(tbl, completed, todoId) ==
  IF todoId.k = "nan" \/ ~ToDbBoolean(completed).ok
  THEN [err |-> "22P02", rows |-> <<>>, table |-> tbl]
  ELSE IF todoId.k = "big" THEN [err |-> "22003", rows |-> <<>>, table |-> tbl]
  ELSE LET hit == {q \in tbl : q.id = todoId.v}
           new == {[q EXCEPT !.completed = ToDbBoolean(completed).v] : q \in hit}
       IN [err |-> "", rows |-> SortById(new), table |-> (tbl \ hit) \cup new]

\* DELETE FROM todos WHERE id = $1
DeleteStmt(tbl, todoId) ==
  IF todoId.k = "nan" THEN [err |-> "22P02", rowCount |-> 0, table |-> tbl]
  ELSE IF todoId.k = "big" THEN [err |-> "22003", rowCount |-> 0, table |-> tbl]
  ELSE LET hit == {q \in tbl : q.id = todoId.v}
       IN [err |-> "", rowCount |-> Cardinality(hit), table |-> tbl \ hit]

\* --------------------------------------------------------- HTTP payloads
NoBody == [k |-> "none", rows |-> <<>>, msg |-> ""]
ErrorBody(m) == [k |-> "error", rows |-> <<>>, msg |-> m]
TodosBody(rows) == [k |-> "todos", rows |-> rows, msg |-> ""]
TodoBody(row) == [k |-> "todo", rows |-> <<row>>, msg |-> ""]
MessageBody(m) == [k |-> "message", rows |-> <<>>, msg |-> m]
\* res.status(500).json({ error: ... }) of the four catch blocks
GenericError == ErrorBody("internal server error")
\* what the framework itself sends when a handler's promise is rejected and
\* it handles the rejection: not a payload of this service
FrameworkError == [k |-> "framework", rows |-> <<>>, msg |-> ""]

NewReq(owner, method, text, idStr, completed, cur) ==
  [pc |-> "received", owner |-> owner, method |-> method, text |-> text,
   idStr |-> idStr, completed |-> completed, cur |-> cur,
   status |-> 0, body |-> NoBody, stale |-> FALSE]

NoOut ==
  [method |-> "none", text |-> Undefined, idStr |-> <<>>, completed |-> Undefined,
   status |-> 0, body |-> NoBody, err |-> "",
   acquired |-> 0, released |-> 0, stmts |-> 0, responses |-> 0]

One(q) == SetToBag({q})
Handling == BagToSet(reqs)
InFlight(q) == q.pc = "query"
\* Node runs one continuation at a time and a response is handed to the
\* socket within the continuation that writes it: no handler step runs
\* between a response being written and its leaving the service
Quiet == out = NoOut
\* the model handles at most MaxReq requests at a time
Room == Quiet /\ BagCardinality(reqs) < MaxReq

\* ------------------------------------------------------------ validation
Ok == [r |-> "ok", msg |-> ""]
Reject(m) == [r |-> "400", msg |-> m]
Throw == [r |-> "throw", msg |-> ""]

\* faulty variant: the check without the trim
PostCheckNoTrim(text) ==
  IF ~Truthy(text) THEN Reject("todo text cannot be empty")
  ELSE IF text.t # "string" THEN Throw
  ELSE Ok

\* if (!text || text.trim() === '') return 400; trim is a method of strings
\* only, so on any other truthy value the call throws a TypeError
PostCheck(text) ==
  IF ~Truthy(text) THEN Reject("todo text cannot be empty")
  ELSE IF text.t # "string" THEN Throw
  ELSE IF Trim(text.s) = <<>> THEN Reject("todo text cannot be empty")
  ELSE Ok

\* typeof completed !== 'boolean' -> 400; isNaN(parseInt(id, 10)) -> 400
PutCheck(idStr, completed) ==
  IF completed.t # "boolean" THEN Reject("completed must be boolean")
  ELSE IF IsNaN(ParseInt(idStr)) THEN Reject("invalid todo id")
  ELSE Ok

\* isNaN(parseInt(id, 10)) -> 400
DeleteCheck(idStr) ==
  IF IsNaN(ParseInt(idStr)) THEN Reject("invalid todo id") ELSE Ok

Check(q) ==
  CASE q.method = "POST" -> PostCheck(q.text)
    [] q.method = "PUT" -> PutCheck(q.idStr, q.completed)
    [] q.method = "DELETE" -> DeleteCheck(q.idStr)
    [] OTHER -> Ok

\* ------------------------------------------------------- handler steps
\* The handler of request q ends, rest being the other requests: what it
\* sent is recorded in out; a client request keeps its response until the
\* client's continuation runs.
Finish(rest, q, status, body, err, acq, rel, stm, nresp) ==
  /\ out' = [method |-> q.method, text |-> q.text, idStr |-> q.idStr,
             completed |-> q.completed, status |-> status, body |-> body,
             err |-> err, acquired |-> acq, released |-> rel, stmts |-> stm,
             responses |-> nresp]
  /\ reqs' = IF q.owner = "ui"
             THEN rest (+) One([q EXCEPT !.pc = "responded", !.status = status,
                                         !.body = body])
             ELSE rest

\* await pool.connect() resolves with a client
ConnectOk(rest, q) ==
  /\ checkedOut' = checkedOut + 1
  /\ reqs' = rest (+) One([q EXCEPT !.pc = "query"])
  /\ out' = NoOut

\* await pool.connect() rejects: the outer catch answers 500; no client was
\* obtained, so no release runs
ConnectFail(rest, q) ==
  /\ Finish(rest, q, 500, GenericError, "connect", 0, 0, 0, 1)
  /\ UNCHANGED checkedOut

\* A request arrives, rest being the requests already with the service: the
\* handler's checks run, then pool.connect() is
\* awaited.  A throw outside try rejects the handler's promise: the
\* framework either answers itself or leaves the request unanswered.
\* pool.connect() touches only the pool's count, which no handler reads, so
\* its resolution is taken in the step of the call; the statement runs in a
\* later step, after steps of other requests.
Receive(rest, q) ==
  LET c == Check(q) IN
  CASE c.r = "ok" -> ConnectOk(rest, q) \/ ConnectFail(rest, q)
    [] c.r = "400" ->
         /\ Finish(rest, q, 400, ErrorBody(c.msg), "", 0, 0, 0, 1)
         /\ UNCHANGED checkedOut
    [] OTHER ->
         /\ \E handled \in BOOLEAN :
              IF handled
              THEN Finish(rest, q, 500, FrameworkError, "throw", 0, 0, 0, 1)
              ELSE Finish(rest, q, 0, NoBody, "throw", 0, 0, 0, 0)
         /\ UNCHANGED checkedOut

\* the statement of request q against the table and the sequence
Exec(q, tbl, s) ==
  CASE q.method = "GET" ->
         [err |-> "", rows |-> SelectAll(tbl), rowCount |-> Cardinality(tbl),
          table |-> tbl, seq |-> s]
    [] q.method = "POST" ->
         LET i == InsertStmt(tbl, s, InsertParams(q.text.s))
         IN [err |-> i.err, rows |-> i.rows, rowCount |-> Len(i.rows),
             table |-> i.table, seq |-> i.seq]
    [] q.method = "PUT" ->
         LET u == UpdateStmt(tbl, q.completed, ParseInt(q.idStr))
         IN [err |-> u.err, rows |-> u.rows, rowCount |-> Len(u.rows),
             table |-> u.table, seq |-> s]
    [] OTHER ->
         LET d == DeleteStmt(tbl, ParseInt(q.idStr))
         IN [err |-> d.err, rows |-> <<>>, rowCount |-> d.rowCount,
             table |-> d.table, seq |-> s]

\* what the handler sends for a query result, and the path it leaves by
Reply(q, res) ==
  IF res.err # ""
  THEN [status |-> 500, body |-> GenericError, path |-> "catch"]
  ELSE CASE q.method = "GET" ->
              [status |-> 200, body |-> TodosBody(res.rows), path |-> "ok"]
         [] q.method = "POST" ->
              [status |-> 201, body |-> TodoBody(res.rows[1]), path |-> "ok"]
         [] q.method = "PUT" ->
              IF Len(res.rows) = 0
              THEN [status |-> 404, body |-> ErrorBody("todo not found"), path |-> "notfound"]
              ELSE [status |-> 200, body |-> TodoBody(res.rows[1]), path |-> "ok"]
         [] OTHER ->
              IF res.rowCount = 0
              THEN [status |-> 404, body |-> ErrorBody("todo not found"), path |-> "notfound"]
              ELSE [status |-> 200, body |-> MessageBody("todo deleted"), path |-> "ok"]

\* faulty variant: the early return of the 404 path skips the release
ReleaseCallsLeak(path) == IF path = "notfound" THEN 0 ELSE 1

\* finally { client.release() }: runs on every path out of the inner try
ReleaseCalls(path) == 1

\* the last two entries of a log
LastTwo(l) == IF Len(l) <= 2 THEN l ELSE SubSeq(l, Len(l) - 1, Len(l))

\* a client toggle's UPDATE took effect: log what the client believed (cur),
\* the row's value before and after
LogToggle(log, q, res) ==
  IF q.owner = "ui" /\ q.method = "PUT" /\ res.err = "" /\ Len(res.rows) = 1
  THEN LET id == res.rows[1].id
           old == CHOOSE x \in table : x.id = id
       IN [log EXCEPT ![id] = LastTwo(Append(@,
             [cur |-> q.cur, before |-> old.completed,
              after |-> res.rows[1].completed]))]
  ELSE log

\* A list response the client has yet to take goes stale when a statement
\* changes the table after the SELECT that produced it.
Mark(e) ==
  IF e.method = "GET" /\ e.pc = "responded" THEN [e EXCEPT !.stale = TRUE] ELSE e

MarkStale(B) ==
  [m \in {Mark(e) : e \in BagToSet(B)} |->
     CopiesIn(m, B)
       + (IF m.stale THEN CopiesIn([m EXCEPT !.stale = FALSE], B) ELSE 0)]

\* await client.query(...) resolves (or rejects with the statement's own
\* error); the handler answers and the finally block releases the client
QueryOk ==
  \E q \in Handling :
    /\ Quiet
    /\ q.pc = "query"
    /\ LET res == Exec(q, table, seq)
           rep == Reply(q, res)
           rel == ReleaseCalls(rep.path)
       IN /\ table' = res.table
          /\ seq' = res.seq
          /\ checkedOut' = checkedOut - rel
          /\ assigned' = IF q.method = "POST" /\ res.err = ""
                         THEN Append(assigned, res.rows[1].id)
                         ELSE assigned
          /\ deleted' = deleted \cup ({x.id : x \in table} \ {x.id : x \in res.table})
          /\ togLog' = LogToggle(togLog, q, res)
          /\ UNCHANGED <<clicks, lastFetch, setup>>
          /\ Finish(IF res.table # table THEN MarkStale(reqs (-) One(q))
                    ELSE reqs (-) One(q),
                    q, rep.status, rep.body, res.err, 1, rel, 1, 1)
    /\ UNCHANGED client

\* await client.query(...) rejects because the store failed (connection lost,
\* server down): the statement had no effect
QueryFail ==
  \E q \in Handling :
    /\ Quiet
    /\ q.pc = "query"
    /\ LET rel == ReleaseCalls("catch")
       IN /\ checkedOut' = checkedOut - rel
          /\ Finish(reqs (-) One(q), q, 500, GenericError, "query", 1, rel, 1, 1)
    /\ UNCHANGED <<table, seq, hist, client, togLog, clicks, lastFetch, setup>>

\* the response written in the last step has left the service
Sent ==
  /\ ~Quiet
  /\ out' = NoOut
  /\ UNCHANGED <<store, reqs, hist, client, togLog, clicks, lastFetch, setup>>

\* --------------------------------------------------- the database cluster
\* A database name is a sequence of characters.  The cluster maps each
\* database that exists to <<>> (no todos table) or <<rows>> (the table).
Lower(c) == CASE c = "T" -> "t" [] c = "D" -> "d" [] OTHER -> c
\* an unquoted identifier in a statement is folded to lower case
Fold(n) == [i \in DOMAIN n |-> Lower(n[i])]
IsIdentifier(n) == n # <<>> /\ \A i \in DOMAIN n : n[i] \in {"t", "d", "T", "D", "_"}

\* CREATE DATABASE ${targetDatabase}: the name is spliced into the statement
\* unquoted
CreateDatabaseStmt(cluster, n) ==
  IF ~IsIdentifier(n) THEN [err |-> "42601", cluster |-> cluster]
  ELSE IF Fold(n) \in DOMAIN cluster THEN [err |-> "42P04", cluster |-> cluster]
  ELSE [err |-> "",
        cluster |-> [d \in DOMAIN cluster \cup {Fold(n)} |->
                       IF d = Fold(n) THEN <<>> ELSE cluster[d]]]

\* new Pool({ database: targetDatabase }).connect(): the name as given
CanConnect(cluster, n) == n \in DOMAIN cluster

\* CREATE TABLE IF NOT EXISTS todos (...) in database n
CreateTableStmt(cluster, n) ==
  [cluster EXCEPT ![n] = IF @ = <<>> THEN <<{}>> ELSE @]

NoRun == [status |-> -1, cluster |-> <<>>]

\* the initializer has run for the database the service uses
SetupRan ==
  [pc |-> "done", env |-> TRUE, name |-> <<"t", "d">>,
   cluster |-> [d \in {<<"t", "d">>} |-> <<{}>>],
   createErr |-> "42P04", fault |-> FALSE, step2 |-> TRUE, status |-> 0,
   runs |-> 1, prev |-> NoRun]

\* ------------------------------------------- requests of any HTTP client
TEmpty == <<>>
TBlank == Rep(" ", 3)
\* exactly VarcharLen characters, white space at both ends
TPadded == Rep(" ", 1) \o Rep("a", VarcharLen - 2) \o Rep(" ", 1)
\* TPadded and one more space: VarcharLen + 1 characters, the excess a space
TTrail == Rep(" ", 1) \o Rep("a", VarcharLen - 2) \o Rep(" ", 2)
\* VarcharLen + 1 characters, the excess not a space
TLong == Rep("a", VarcharLen + 1)

BodyTexts ==
  {Undefined, JNum(123), JStr(TEmpty), JStr(TBlank), JStr(TPadded),
   JStr(TTrail), JStr(TLong)}

\* the decimal digits of Int4Max + 1
TooBigId == <<"2", "1", "4", "7", "4", "8", "3", "6", "4", "8">>

RowIds == {IdToString(i) : i \in 1..MaxSeq}

PutInputs ==
  (RowIds \X {JBool(TRUE), JBool(FALSE)})
    \cup {<<TooBigId, JBool(TRUE)>>, <<<<"a">>, JBool(TRUE)>>,
          <<IdToString(1), Undefined>>, <<IdToString(1), JNum(1)>>}

DeleteInputs == RowIds \cup {<<"a">>, <<"1", "a">>, TooBigId}

PendingPosts ==
  BagCardinality([q \in {x \in Handling : InFlight(x) /\ x.method = "POST"}
                    |-> CopiesIn(q, reqs)])

\* the model stops handing out sequence values at MaxSeq
SeqLeft == seq + PendingPosts < MaxSeq

ApiGet ==
  /\ Room
  /\ Receive(reqs, NewReq("api", "GET", Undefined, <<>>, Undefined, Undefined))
  /\ UNCHANGED <<table, seq, hist, client, togLog, clicks, lastFetch, setup>>

ApiPost ==
  /\ Room
  /\ \E text \in BodyTexts :
       /\ PostCheck(text).r = "ok" => SeqLeft
       /\ Receive(reqs, NewReq("api", "POST", text, <<>>, Undefined, Undefined))
  /\ UNCHANGED <<table, seq, hist, client, togLog, clicks, lastFetch, setup>>

ApiPut ==
  /\ Room
  /\ \E in \in PutInputs :
       Receive(reqs, NewReq("api", "PUT", Undefined, in[1], in[2], Undefined))
  /\ UNCHANGED <<table, seq, hist, client, togLog, clicks, lastFetch, setup>>

ApiDelete ==
  /\ Room
  /\ \E idStr \in DeleteInputs :
       Receive(reqs, NewReq("api", "DELETE", Undefined, idStr, Undefined, Undefined))
  /\ UNCHANGED <<table, seq, hist, client, togLog, clicks, lastFetch, setup>>

Init ==
  /\ table = {}
  /\ seq = 0
  /\ checkedOut = 0
  /\ reqs = EmptyBag
  /\ out = NoOut
  /\ assigned = <<>>
  /\ deleted = {}
  /\ todos = <<>>
  /\ error = ""
  /\ newTodoText = <<>>
  /\ togLog = [i \in 1..MaxSeq |-> <<>>]
  /\ clicks = 0
  /\ lastFetch = "none"
  /\ setup = SetupRan

Next ==
  \/ ApiGet
  \/ ApiPost
  \/ ApiPut
  \/ ApiDelete
  \/ QueryOk
  \/ QueryFail
  \/ Sent

Spec == Init /\ [][Next]_vars

\* ------------------------------------------------------------ the client
\* The App component and the service it talks to, the only client there is.
UiTexts == {TBlank, TPadded, TLong}

\* the requests whose response the client has not yet taken
Responded == {q \in Handling : q.owner = "ui" /\ q.pc = "responded"}

\* axios resolves for a 2xx status and rejects for any other
Resolves(q) == q.status >= 200 /\ q.status < 300

\* faulty variant: a mutation that is not followed by a re-fetch
NoFetch(rest) ==
  /\ reqs' = rest
  /\ UNCHANGED <<checkedOut, out>>

\* fetchTodos up to its await: setError(null), then GET /api/todos is sent
FetchTodos(rest) ==
  Receive(rest, NewReq("ui", "GET", Undefined, <<>>, Undefined, Undefined))

\* onChange of the input: setNewTodoText(e.target.value)
UiType ==
  /\ Quiet
  /\ \E text \in UiTexts \cup {TEmpty} :
       /\ text # newTodoText
       /\ newTodoText' = text
  /\ UNCHANGED <<store, reqs, out, hist, todos, error, togLog, clicks, lastFetch, setup>>

\* addTodo up to its await: nothing for a blank input; else setError(null)
\* and POST /api/todos { text: newTodoText }
UiAdd ==
  /\ Room
  /\ clicks < MaxClicks
  /\ clicks' = clicks + 1
  /\ Trim(newTodoText) # <<>>
  /\ SeqLeft
  /\ error' = ""
  /\ Receive(reqs, NewReq("ui", "POST", JStr(newTodoText), <<>>, Undefined, Undefined))
  /\ UNCHANGED <<table, seq, hist, todos, newTodoText, togLog, lastFetch, setup>>

\* toggleComplete(todo.id, todo.completed) of a rendered item, up to its
\* await: setError(null) and PUT /api/todos/${id} { completed: !currentStatus }
UiToggle ==
  /\ Room
  /\ clicks < MaxClicks
  /\ clicks' = clicks + 1
  /\ \E i \in DOMAIN todos :
       Receive(reqs, NewReq("ui", "PUT", Undefined, IdToString(todos[i].id),
                            Not(todos[i].completed), todos[i].completed))
  /\ error' = ""
  /\ UNCHANGED <<table, seq, hist, todos, newTodoText, togLog, lastFetch, setup>>

\* deleteTodo(todo.id) of a rendered item, up to its await: setError(null)
\* and DELETE /api/todos/${id}
UiDelete ==
  /\ Room
  /\ clicks < MaxClicks
  /\ clicks' = clicks + 1
  /\ \E i \in DOMAIN todos :
       Receive(reqs, NewReq("ui", "DELETE", Undefined, IdToString(todos[i].id),
                            Undefined, Undefined))
  /\ error' = ""
  /\ UNCHANGED <<table, seq, hist, todos, newTodoText, togLog, lastFetch, setup>>

\* the continuation of fetchTodos after its await
FetchDone ==
  \E q \in Responded :
    /\ Quiet
    /\ q.method = "GET"
    /\ reqs' = reqs (-) One(q)
    /\ IF Resolves(q)
       THEN IF q.body.k = "todos"
            THEN todos' = q.body.rows /\ UNCHANGED error
            ELSE todos' = <<>> /\ error' = "format"
       ELSE todos' = <<>> /\ error' = "load"
    /\ lastFetch' = IF Resolves(q) /\ q.body.k = "todos"
                    THEN IF q.stale THEN "stale" ELSE "fresh"
                    ELSE "failed"
    /\ UNCHANGED <<store, out, hist, newTodoText, togLog, clicks, setup>>

\* the continuation of addTodo, toggleComplete or deleteTodo after its await:
\* on success (addTodo clears the input and) fetchTodos is called; on
\* failure the catch block sets the error
MutationDone ==
  \E q \in Responded :
    /\ Quiet
    /\ q.method # "GET"
    /\ IF Resolves(q)
       THEN /\ newTodoText' = IF q.method = "POST" THEN <<>> ELSE newTodoText
            /\ error' = ""
            /\ FetchTodos(reqs (-) One(q))
       ELSE /\ error' = CASE q.method = "POST" -> "add"
                          [] q.method = "PUT" -> "update"
                          [] OTHER -> "delete"
            /\ reqs' = reqs (-) One(q)
            /\ UNCHANGED <<checkedOut, out, newTodoText>>
    /\ UNCHANGED <<table, seq, hist, todos, togLog, clicks, lastFetch, setup>>

\* The state after the first render and its effect: fetchTodos has been
\* called and its GET is with the service, where the pool has either handed
\* out a client or failed.
MountGet == NewReq("ui", "GET", Undefined, <<>>, Undefined, Undefined)

InitUI ==
  /\ table = {}
  /\ seq = 0
  /\ out = NoOut
  /\ assigned = <<>>
  /\ deleted = {}
  /\ todos = <<>>
  /\ error = ""
  /\ newTodoText = <<>>
  /\ togLog = [i \in 1..MaxSeq |-> <<>>]
  /\ clicks = 0
  /\ lastFetch = "none"
  /\ setup = SetupRan
  /\ \/ /\ checkedOut = 1
        /\ reqs = One([MountGet EXCEPT !.pc = "query"])
     \/ /\ checkedOut = 0
        /\ reqs = One([MountGet EXCEPT !.pc = "responded", !.status = 500,
                                       !.body = GenericError])

NextUI ==
  \/ UiType
  \/ UiAdd
  \/ UiToggle
  \/ UiDelete
  \/ FetchDone
  \/ MutationDone
  \/ QueryOk
  \/ QueryFail
  \/ Sent

SpecUI == InitUI /\ [][NextUI]_vars

\* ------------------------------------------------ the schema initializer
app == <<table, seq, checkedOut, reqs, out, assigned, deleted,
         todos, error, newTodoText, togLog, clicks, lastFetch>>

\* PGDATABASE: a lower-case name, a name with an upper-case letter, a name
\* that is no identifier
DbNames == {<<"t", "d">>, <<"T", "d">>, <<"t", "-", "d">>}
SomeRow == Row(1, Rep("a", 1), JBool(FALSE))
TableStates == {<<>>, <<{}>>, <<{SomeRow}>>}
\* any state of the databases a run for name n can touch
InitClusters(n) == UNION {[D -> TableStates] : D \in SUBSET {n, Fold(n)}}

\* process.exit(1)
Exit1(createErr, fault) ==
  setup' = [setup EXCEPT !.pc = "exited", !.status = 1,
                         !.createErr = createErr, !.fault = fault]

\* if (!host || !port || !user || !password || !targetDatabase) process.exit(1)
EnvCheck ==
  /\ setup.pc = "start"
  /\ IF setup.env
     THEN setup' = [setup EXCEPT !.pc = "admin"]
     ELSE Exit1(setup.createErr, setup.fault)
  /\ UNCHANGED app

\* initialClient = await initialPool.connect(), to the postgres database;
\* a rejection has no code 42P04, so the catch block exits
AdminConnect ==
  /\ setup.pc = "admin"
  /\ \E ok \in BOOLEAN :
       IF ok THEN setup' = [setup EXCEPT !.pc = "create"]
       ELSE Exit1("connect", TRUE)
  /\ UNCHANGED app

\* await initialClient.query(`CREATE DATABASE ${targetDatabase}`); the catch
\* block continues on 42P04 and exits on anything else
CreateDatabase ==
  /\ setup.pc = "create"
  /\ \E lost \in BOOLEAN :
       LET r == CreateDatabaseStmt(setup.cluster, setup.name) IN
       IF lost THEN Exit1("other", TRUE)
       ELSE IF r.err = ""
       THEN setup' = [setup EXCEPT !.pc = "target", !.cluster = r.cluster,
                                   !.createErr = "none"]
       ELSE IF r.err = "42P04"
       THEN setup' = [setup EXCEPT !.pc = "target", !.createErr = "42P04"]
       ELSE Exit1(r.err, setup.fault)
  /\ UNCHANGED app

\* targetClient = await targetPool.connect(), to the target database; the
\* catch block of step 2 exits on any error
TargetConnect ==
  /\ setup.pc = "target"
  /\ \E lost \in BOOLEAN :
       IF lost
       THEN setup' = [setup EXCEPT !.pc = "exited", !.status = 1,
                                   !.fault = TRUE, !.step2 = TRUE]
       ELSE IF CanConnect(setup.cluster, setup.name)
       THEN setup' = [setup EXCEPT !.pc = "table", !.step2 = TRUE]
       ELSE setup' = [setup EXCEPT !.pc = "exited", !.status = 1, !.step2 = TRUE]
  /\ UNCHANGED app

\* await targetClient.query(createTableQuery); then the function returns and
\* the process ends with status 0
CreateTable ==
  /\ setup.pc = "table"
  /\ \E lost \in BOOLEAN :
       IF lost
       THEN Exit1(setup.createErr, TRUE)
       ELSE setup' = [setup EXCEPT !.pc = "done", !.status = 0,
                        !.cluster = CreateTableStmt(setup.cluster, setup.name)]
  /\ UNCHANGED app

\* the script is run again, with the same environment
Rerun ==
  /\ setup.pc \in {"done", "exited"}
  /\ setup.runs < MaxRuns
  /\ setup' = [setup EXCEPT !.pc = "start", !.createErr = "", !.fault = FALSE,
                            !.step2 = FALSE, !.status = -1, !.runs = @ + 1,
                            !.prev = [status |-> setup.status,
                                      cluster |-> setup.cluster]]
  /\ UNCHANGED app

InitSetup ==
  /\ table = {}
  /\ seq = 0
  /\ checkedOut = 0
  /\ reqs = EmptyBag
  /\ out = NoOut
  /\ assigned = <<>>
  /\ deleted = {}
  /\ todos = <<>>
  /\ error = ""
  /\ newTodoText = <<>>
  /\ togLog = [i \in 1..MaxSeq |-> <<>>]
  /\ clicks = 0
  /\ lastFetch = "none"
  /\ \E n \in DbNames, e \in BOOLEAN :
       \E c \in InitClusters(n) :
         setup = [pc |-> "start", env |-> e, name |-> n, cluster |-> c,
                  createErr |-> "", fault |-> FALSE, step2 |-> FALSE,
                  status |-> -1, runs |-> 1, prev |-> NoRun]

NextSetup ==
  \/ EnvCheck
  \/ AdminConnect
  \/ CreateDatabase
  \/ TargetConnect
  \/ CreateTable
  \/ Rerun

SpecSetup == InitSetup /\ [][NextSetup]_vars

\* ======================================================== the properties
Ids(S) == {x.id : x \in S}
Range(f) == {f[i] : i \in DOMAIN f}
\* the ids of the Todos created and not since deleted
Live == Range(assigned) \ deleted
Ascending(rows) == \A i \in 1..(Len(rows) - 1) : rows[i].id < rows[i + 1].id
\* the store did what it was asked: neither the connection nor the query
\* failed for a reason outside the request
StoreWorked(o) == o.err \notin {"connect", "query"}
\* the store step failed: the acquisition, the query, or the statement
StoreFailed(o) == o.err \notin {"", "throw"}
\* a decimal integer: an optional sign and digits, nothing else
IsIntegerLiteral(s) ==
  LET u == IF s # <<>> /\ s[1] \in {"+", "-"} THEN Tail(s) ELSE s
  IN u # <<>> /\ \A i \in DOMAIN u : IsDigit(u[i])
NonBlank(v) == v.t = "string" /\ Trim(v.s) # <<>>
Blank(v) == v.t = "undefined" \/ (v.t = "string" /\ Trim(v.s) = <<>>)
\* the rows a path identifier selects
Hit(idStr) ==
  {x \in table : ParseInt(idStr).k = "int" /\ x.id = ParseInt(idStr).v}

\* the Create contract: 201, the text as sent, completed false, an id never
\* assigned before, exactly one row added
CreatedAsSent(o) ==
  /\ o.status = 201
  /\ o.body.k = "todo"
  /\ o.body.rows[1].text = o.text.s
  /\ o.body.rows[1].completed = JBool(FALSE)
  /\ o.body.rows[1].id \notin Range(assigned)
  /\ o.body.rows[1].id \notin Ids(table)
  /\ table' = table \cup {o.body.rows[1]}

\* C1 as stated: every Create whose text t has t.trim() != "", with the
\* store working, is answered 201 with a Todo of exactly that text,
\* completed false and a fresh id, and adds exactly that row.
C1_AsStated ==
  [][(out'.method = "POST" /\ NonBlank(out'.text) /\ StoreWorked(out'))
       => CreatedAsSent(out')]_vars

\* C1 amended: the same for every text t with t.trim() != "" of at most 255
\* characters, the width of the text column.
C1_CreateReturnsTextAsSent ==
  [][(out'.method = "POST" /\ NonBlank(out'.text) /\ StoreWorked(out')
        /\ StrLen(out'.text.s) <= VarcharLen)
       => CreatedAsSent(out')]_vars

\* a Create answered 201 with the padded text of full column width, after an
\* earlier Todo was deleted
C1_Witness ==
  /\ out.method = "POST"
  /\ out.status = 201
  /\ out.text = JStr(TPadded)
  /\ out.body.rows[1].text = TPadded
  /\ deleted # {}

\* C2: a Create whose text is missing, empty or white space only is answered
\* 400 with an error payload, acquires no connection, runs no statement and
\* leaves the table (hence what List returns) as it was.
C2_BlankCreateRejected ==
  [][(out'.method = "POST" /\ Blank(out'.text))
       => /\ out'.status = 400
          /\ out'.body.k = "error"
          /\ out'.responses = 1
          /\ out'.acquired = 0
          /\ out'.stmts = 0
          /\ checkedOut' = checkedOut
          /\ seq' = seq
          /\ table' = table
          /\ SelectAll(table') = SelectAll(table)]_vars

\* a white-space-only Create rejected while the table holds a row
C2_Witness ==
  /\ out.method = "POST"
  /\ out.text = JStr(TBlank)
  /\ out.status = 400
  /\ table # {}

\* C3: with the store working, List answers 200 with a sequence (never null)
\* holding exactly the Todos created and not since deleted, each once, in
\* strictly ascending id order; N creates and no delete give N items.
C3_ListReturnsLiveAscending ==
  [][(out'.method = "GET" /\ StoreWorked(out'))
       => /\ out'.status = 200
          /\ out'.body.k = "todos"
          /\ Ascending(out'.body.rows)
          /\ {out'.body.rows[i].id : i \in DOMAIN out'.body.rows} = Live
          /\ Len(out'.body.rows) = Cardinality(Live)
          /\ \A i \in DOMAIN out'.body.rows : out'.body.rows[i] \in table
          /\ deleted = {} => Len(out'.body.rows) = Len(assigned)]_vars

\* a List of two Todos, one of them completed
C3_Witness ==
  /\ out.method = "GET"
  /\ out.status = 200
  /\ Len(out.body.rows) = 2
  /\ out.body.rows[2].completed = JBool(TRUE)

\* C4 as stated: Delete of an id with no row answers 404 and leaves the table
\* unchanged; Delete of an existing id answers 200 with a message and removes
\* exactly that row, for good: the id is never in the table again, and Update
\* and Delete on it answer 404.
C4_AsStated ==
  /\ [](Ids(table) \cap deleted = {})
  /\ [][(out'.method = "DELETE" /\ StoreWorked(out') /\ ~IsNaN(ParseInt(out'.idStr)))
          => IF Hit(out'.idStr) = {}
             THEN out'.status = 404 /\ table' = table
             ELSE /\ out'.status = 200
                  /\ out'.body.k = "message"
                  /\ Cardinality(Hit(out'.idStr)) = 1
                  /\ table' = table \ Hit(out'.idStr)]_vars
  /\ [][(out'.method \in {"PUT", "DELETE"} /\ StoreWorked(out')
           /\ out'.acquired = 1
           /\ ParseInt(out'.idStr).k = "int" /\ ParseInt(out'.idStr).v \in deleted)
          => out'.status = 404]_vars

\* C5: the ids assigned by Create are pairwise distinct and increase in the
\* order of assignment, whatever Creates and Deletes interleave; the id of a
\* deleted Todo is never assigned again and never back in the table.
C5_IdsIncreaseNoReuse ==
  /\ \A i, j \in DOMAIN assigned : i < j => assigned[i] < assigned[j]
  /\ \A d \in deleted : Cardinality({i \in DOMAIN assigned : assigned[i] = d}) = 1
  /\ Ids(table) = Live
  /\ Cardinality(Ids(table)) = Cardinality(table)

\* a Create after the first Todo was deleted
C5_Witness ==
  /\ Len(assigned) = 2
  /\ assigned[1] \in deleted
  /\ assigned[2] \in Ids(table)

\* C6 as stated: an Update or Delete whose path identifier is not an integer,
\* and an Update whose completed is not a boolean, is answered 400, acquires
\* no connection, and changes or removes no row.
C6_AsStated ==
  [][((out'.method \in {"PUT", "DELETE"} /\ ~IsIntegerLiteral(out'.idStr))
        \/ (out'.method = "PUT" /\ out'.completed.t # "boolean"))
       => /\ out'.status = 400
          /\ out'.acquired = 0
          /\ table' = table]_vars

\* C6, the part that holds: an Update or Delete whose path identifier
\* parseInt reads as NaN, and an Update whose completed is not a boolean, is
\* answered 400, acquires no connection, runs no statement and changes no row.
C6_InvalidNeverReachesStore ==
  [][((out'.method \in {"PUT", "DELETE"} /\ IsNaN(ParseInt(out'.idStr)))
        \/ (out'.method = "PUT" /\ out'.completed.t # "boolean"))
       => /\ out'.status = 400
          /\ out'.body.k = "error"
          /\ out'.acquired = 0
          /\ out'.stmts = 0
          /\ checkedOut' = checkedOut
          /\ reqs' = reqs
          /\ table' = table]_vars

\* an Update with a non-boolean completed rejected while the row it names
\* exists
C6_Witness ==
  /\ out.method = "PUT"
  /\ out.completed = Undefined
  /\ out.status = 400
  /\ Hit(out.idStr) # {}

\* a logged toggle was issued while the client's list showed the stored value
Fresh(e) == e.cur = e.before

\* C7 as stated: any two consecutive toggles of an item, the client being the
\* only source of requests, bring its stored completed value back to what it
\* was before the first, also when the second is issued before the re-fetch
\* of the first has resolved.
C7_AsStated ==
  \A id \in DOMAIN togLog :
    Len(togLog[id]) = 2 => togLog[id][2].after = togLog[id][1].before

\* C7 amended: two consecutive toggles of an item, each issued while the
\* client's list shows the item's stored completed value (the second, so,
\* after a re-fetch following the first was applied), bring the stored
\* value back to what it was before the first.
C7_ToggleTwiceRoundTrip ==
  \A id \in DOMAIN togLog :
    (Len(togLog[id]) = 2 /\ Fresh(togLog[id][1]) /\ Fresh(togLog[id][2]))
      => /\ togLog[id][1].after = Not(togLog[id][1].before)
         /\ togLog[id][2].before = togLog[id][1].after
         /\ togLog[id][2].after = togLog[id][1].before

\* two toggles of the first Todo, the second issued from the re-fetched list,
\* and the list fetched after them shows the original value
C7_Witness ==
  /\ Len(togLog[1]) = 2
  /\ Fresh(togLog[1][1])
  /\ Fresh(togLog[1][2])
  /\ togLog[1][2].after = JBool(FALSE)
  /\ reqs = EmptyBag
  /\ Len(todos) = 1
  /\ todos[1].completed = JBool(FALSE)

\* C8 as stated: every request a handler is given, whatever its body, gets
\* exactly one response from the handler; when its store step fails the
\* response is 500 with the generic error payload and the table is unchanged.
C8_AsStated ==
  [][out'.method # "none"
       => /\ out'.responses = 1
          /\ out'.body.k # "framework"
          /\ StoreFailed(out')
               => /\ out'.status = 500
                  /\ out'.body = GenericError
                  /\ table' = table]_vars

\* C9: every persisted Todo has a non-empty text and a boolean completed;
\* a row's text and id never change after its creation; an Update changes
\* only the completed field of the row its identifier selects.
C9_RowsKeepTextUpdateTouchesOneRow ==
  /\ [](\A x \in table : x.text # <<>> /\ x.completed.t = "boolean")
  /\ [][/\ \A x \in table, y \in table' : x.id = y.id => y.text = x.text
        /\ Ids(table') \ Ids(table) # {}
             => /\ out'.method = "POST"
                /\ table' \ table = {out'.body.rows[1]}
        /\ out'.method = "PUT"
             => /\ Ids(table') = Ids(table)
                /\ \A x \in table \ Hit(out'.idStr) : x \in table'
                /\ \A x \in Hit(out'.idStr) :
                     out'.status = 200
                       => [x EXCEPT !.completed = out'.completed] \in table']_vars

\* an Update completed one of two Todos and left the other as it was
C9_Witness ==
  /\ out.method = "PUT"
  /\ out.status = 200
  /\ \E x, y \in table :
       /\ x.id = out.body.rows[1].id
       /\ x.completed = JBool(TRUE)
       /\ y.id # x.id
       /\ y.completed = JBool(FALSE)

\* the requests that hold a pool client
Holding ==
  BagCardinality([q \in {x \in Handling : InFlight(x)} |-> CopiesIn(q, reqs)])

\* C10: every client acquired is released exactly once on every path, so the
\* clients checked out are those of the requests awaiting their query, none
\* when no request is in flight; a handler whose acquisition failed releases
\* nothing.
C10_NoConnectionLeak ==
  /\ checkedOut = Holding
  /\ Holding = 0 => checkedOut = 0
  /\ out.released = out.acquired
  /\ out.released \in {0, 1}

\* the 404 early return of a Delete released its client; nothing in flight
C10_Witness ==
  /\ out.method = "DELETE"
  /\ out.status = 404
  /\ out.acquired = 1
  /\ out.released = 1
  /\ reqs = EmptyBag
  /\ checkedOut = 0

\* every request of the client has been answered and its continuation has run
Settled == reqs = EmptyBag
\* the messages fetchTodos sets
FetchErrors == {"load", "format"}

\* C11 as stated: once the client's requests have all resolved, the last list
\* fetch successfully and no failure showing, the client's list equals the
\* table, whichever order the responses resolved in.
C11_AsStated ==
  (Settled /\ error = "" /\ lastFetch \in {"fresh", "stale"})
    => todos = SelectAll(table)

\* C11 amended: once the client's requests have all resolved, the client's
\* list equals the table provided the list fetch that resolved last succeeded
\* and ran its SELECT after the last change to the table.
C11_SettledListEqualsTable ==
  (Settled /\ lastFetch = "fresh") => todos = SelectAll(table)

\* the client created a Todo and completed it; its last re-fetch shows both
C11_Witness ==
  /\ Settled
  /\ lastFetch = "fresh"
  /\ clicks >= 2
  /\ Len(todos) = 1
  /\ todos[1].completed = JBool(TRUE)
  /\ todos = SelectAll(table)

\* C12 as stated: the list fetch that resolves last decides list and error
\* message: a sequence received is shown with no fetch error message; a
\* failure or a non-sequence empties the list and sets the message; so a
\* fetch error message is never shown together with a non-empty list.
C12_AsStated ==
  /\ [](error \in FetchErrors => todos = <<>>)
  /\ [][\A q \in Responded :
          (q.method = "GET" /\ reqs' = reqs (-) One(q))
            => IF Resolves(q) /\ q.body.k = "todos"
               THEN todos' = q.body.rows /\ error' \notin FetchErrors
               ELSE todos' = <<>> /\ error' \in FetchErrors]_vars

\* a run of the initializer has ended
Ended == setup.pc \in {"done", "exited"}
\* database and table of the configured name are there
Present(cluster, n) == n \in DOMAIN cluster /\ cluster[n] # <<>>

\* the second and third parts of C13: a failure of the first step other than
\* 'already exists' ends the process with status 1 before step 2 is begun;
\* a run after a successful run succeeds and leaves databases, tables and
\* rows as they were (no connection or statement failing from outside)
FailsClosedAndRepeats ==
  /\ (Ended /\ setup.createErr \notin {"", "none", "42P04"})
       => setup.status = 1 /\ ~setup.step2
  /\ (Ended /\ setup.prev.status = 0 /\ ~setup.fault)
       => setup.status = 0 /\ setup.cluster = setup.prev.cluster

\* C13 as stated: from any database state, a run whose CREATE DATABASE fails
\* with 'already exists' continues and, no connection or statement failing
\* from outside, ends with status 0 and database and table present; any
\* other failure of the first step exits with status 1 before step 2; a run
\* after a successful run succeeds and changes nothing.
C13_AsStated ==
  /\ (Ended /\ setup.createErr = "42P04" /\ ~setup.fault)
       => setup.status = 0 /\ Present(setup.cluster, setup.name)
  /\ FailsClosedAndRepeats

\* C13, the part that holds: the same for a database name that CREATE
\* DATABASE reads as it is written (lower case).
C13_HoldsForLowerCaseNames ==
  /\ (Ended /\ setup.createErr = "42P04" /\ ~setup.fault
        /\ Fold(setup.name) = setup.name)
       => setup.status = 0 /\ Present(setup.cluster, setup.name)
  /\ FailsClosedAndRepeats

\* a second run found the database, and the table with its row, and left them
C13_Reached ==
  /\ setup.pc = "done"
  /\ setup.runs = 2
  /\ setup.prev.status = 0
  /\ setup.createErr = "42P04"
  /\ setup.cluster[setup.name] = <<{SomeRow}>>

====
